---- MODULE Spec2Model ----
(***************************************************************************)
(* Quarto rule engine: the piece encoding (src/src/piece.rs) and the 4x4   *)
(* field with its win detection (src/src/field.rs).                        *)
(***************************************************************************)
EXTENDS Integers, Sequences, FiniteSets, TLC

VARIABLES
    field,        \* Field::field, field[y][x]
    square_mode,  \* Field::square_mode
    piece,        \* the properties byte of the caller's Piece
    op,           \* the last call made
    args,         \* its arguments (put's are not kept)
    ret,          \* what it returned
    successes     \* the puts that have returned Ok

vars == <<field, square_mode, piece, op, args, ret, successes>>

(***************************************************************************)
(* Bounds of the model.                                                    *)
(***************************************************************************)
\* Most occupied cells in a game played from the empty field (Spec).
MaxPieces == 3
\* Most occupied cells in a game played on from a field holding one full
\* line (PlaySpec).
MaxPlayPieces == 5

(***************************************************************************)
(* u8 arithmetic.                                                          *)
(***************************************************************************)
U8Bits == 8
U8Max == 255

Pow2(n) == 2 ^ n

Bit(a, i) == (a \div Pow2(i)) % 2

RECURSIVE SumBits(_, _, _)
SumBits(a, b, i) ==
    IF i = U8Bits THEN 0
    ELSE Bit(a, i) * Bit(b, i) * Pow2(i) + SumBits(a, b, i + 1)

\* a & b for every pair of bytes, computed once
AndOfBytes == [a \in 0 .. U8Max |-> [b \in 0 .. U8Max |-> SumBits(a, b, 0)]]

\* a & b
BitAnd(a, b) == AndOfBytes[a][b]
\* !a
BitNot(a) == U8Max - a
\* a | b
BitOr(a, b) == a + b - BitAnd(a, b)
\* a << n on a u8: the bits shifted past bit 7 are dropped
Shl(a, n) == (a * Pow2(n)) % Pow2(U8Bits)
\* a >> n
Shr(a, n) == a \div Pow2(n)

(***************************************************************************)
(* piece.rs                                                                *)
(***************************************************************************)
Tall == 1
Round == 2
Full == 4
Light == 8

Property == {Tall, Round, Full, Light}

\* new_with_props as it would be with the is-false bits filled in
new_with_props_complement(props) ==
    BitOr(props, BitAnd(BitNot(Shl(props, 4)), Shl(15, 4)))

\* Piece::new_with_props, past its assertion that props >> 4 == 0
new_with_props(props) == BitAnd(props, BitNot(Shl(props, 4)))

\* Piece::new
new == new_with_props(0)

\* set with the mask of the false branch left unnegated
set_unnegated(p, prop, val) ==
    IF val
    THEN BitAnd(BitOr(p, prop), BitNot(Shl(prop, 4)))
    ELSE BitOr(BitAnd(p, prop), Shl(prop, 4))

\* Piece::set: the properties byte after the call
set(p, prop, val) ==
    IF val
    THEN BitAnd(BitOr(p, prop), BitNot(Shl(prop, 4)))
    ELSE BitOr(BitAnd(p, BitNot(prop)), Shl(prop, 4))

\* Piece::get
get(p, prop) == BitAnd(p, prop) # 0

(***************************************************************************)
(* field.rs                                                                *)
(***************************************************************************)
SIZE == 4

Idx == 0 .. (SIZE - 1)

\* Option<Piece>
None == <<>>
Some(p) == <<p>>
is_none(c) == c = None

\* type Pos = (usize, usize): pos[1] is pos.0 (x), pos[2] is pos.1 (y)
Pos == Idx \X Idx

\* The pieces the tests place (the tests name the constructor with_props;
\* piece.rs defines it as new_with_props)
TEST_LIGHT_TALL == new_with_props(BitOr(Tall, Light))
TEST_DARK_SHORT == new_with_props(0)
TEST_SHORT_FULL_DARK_CIRCLE == new_with_props(BitOr(Full, Round))

\* Field::default: every cell None, square_mode false
EmptyField == [y \in Idx |-> [x \in Idx |-> None]]

\* put storing the piece whether or not the cell is empty
put_field_overwrite(f, pos, p) == [f EXCEPT ![pos[2]][pos[1]] = Some(p)]

\* put taking the piece out of an occupied cell
put_field_take(f, pos, p) ==
    IF is_none(f[pos[2]][pos[1]])
    THEN [f EXCEPT ![pos[2]][pos[1]] = Some(p)]
    ELSE [f EXCEPT ![pos[2]][pos[1]] = None]

\* Field::put: the grid after the call
put_field(f, pos, p) ==
    IF is_none(f[pos[2]][pos[1]])
    THEN [f EXCEPT ![pos[2]][pos[1]] = Some(p)]
    ELSE f

\* put reporting success whatever the cell holds
put_result_always_ok(f, pos, p) == "Ok"

\* Field::put: the Result returned
put_result(f, pos, p) ==
    IF is_none(f[pos[2]][pos[1]]) THEN "Ok" ELSE "Err"

\* check_array_for_win passing over an empty cell instead of returning false
RECURSIVE check_array_loop_skip_none(_, _, _)
check_array_loop_skip_none(ary, i, acc) ==
    IF i > Len(ary) THEN acc # 0
    ELSE IF is_none(ary[i]) THEN check_array_loop_skip_none(ary, i + 1, acc)
    ELSE check_array_loop_skip_none(ary, i + 1, BitAnd(acc, ary[i][1]))

\* Field::check_array_for_win: the loop from element i on, ret accumulated so far
RECURSIVE check_array_loop(_, _, _)
check_array_loop(ary, i, acc) ==
    IF i > Len(ary) THEN acc # 0
    ELSE IF is_none(ary[i]) THEN FALSE
    ELSE check_array_loop(ary, i + 1, BitAnd(acc, ary[i][1]))

check_array_for_win(ary) == check_array_loop(ary, 1, U8Max)

row_of(f, y) == [n \in 1 .. SIZE |-> f[y][n - 1]]
column_of(f, column_idx) == [n \in 1 .. SIZE |-> f[n - 1][column_idx]]
diagonal_of(f) == [n \in 1 .. SIZE |-> f[n - 1][n - 1]]
anti_diagonal_of(f) == [n \in 1 .. SIZE |-> f[n - 1][(SIZE - 1) - (n - 1)]]
flattened_square(f, i, k) ==
    <<f[i][k], f[i][k + 1], f[i + 1][k], f[i + 1][k + 1]>>

\* Field::check_field_for_win
check_field_for_win(f, sq) ==
    \/ \E y \in Idx : check_array_for_win(row_of(f, y))
    \/ \E column_idx \in Idx : check_array_for_win(column_of(f, column_idx))
    \/ check_array_for_win(diagonal_of(f))
    \/ check_array_for_win(anti_diagonal_of(f))
    \/ /\ sq
       /\ \E i \in 0 .. (SIZE - 2) : \E k \in 0 .. (SIZE - 2) :
              check_array_for_win(flattened_square(f, i, k))

\* empty_spaces reading field[x][y] where the code reads field[y][x]
RECURSIVE empty_spaces_loop_transposed(_, _)
empty_spaces_loop_transposed(f, n) ==
    IF n = SIZE * SIZE THEN <<>>
    ELSE LET x == n \div SIZE
             y == n % SIZE
         IN  IF is_none(f[x][y])
             THEN <<(<<x, y>>)>> \o empty_spaces_loop_transposed(f, n + 1)
             ELSE empty_spaces_loop_transposed(f, n + 1)

\* Field::empty_spaces: the scan from cell n = x * SIZE + y on
RECURSIVE empty_spaces_loop(_, _)
empty_spaces_loop(f, n) ==
    IF n = SIZE * SIZE THEN <<>>
    ELSE LET x == n \div SIZE
             y == n % SIZE
         IN  IF is_none(f[y][x])
             THEN <<(<<x, y>>)>> \o empty_spaces_loop(f, n + 1)
             ELSE empty_spaces_loop(f, n + 1)

empty_spaces(f) == empty_spaces_loop(f, 0)

(***************************************************************************)
(* Inputs of the calls.                                                    *)
(***************************************************************************)
\* The pieces handed to put in the games
Pieces == {TEST_LIGHT_TALL, TEST_DARK_SHORT}

\* The pieces a single line is filled with: the tests' three, and one that
\* set has given an is-false bit
LinePieces ==
    {TEST_LIGHT_TALL, TEST_DARK_SHORT, TEST_SHORT_FULL_DARK_CIRCLE,
     set(new, Tall, FALSE)}

\* The truth assignments handed to new_with_props
Props == 0 .. U8Max

\* The cells of the lines check_field_for_win looks at
RowCells(y) == {<<x, y>> : x \in Idx}
ColumnCells(x) == {<<x, y>> : y \in Idx}
DiagonalCells == {<<x, x>> : x \in Idx}
AntiDiagonalCells == {<<(SIZE - 1) - y, y>> : y \in Idx}
SquareCells(i, k) == {<<k, i>>, <<k + 1, i>>, <<k, i + 1>>, <<k + 1, i + 1>>}

StraightLines ==
    {RowCells(y) : y \in Idx} \cup {ColumnCells(x) : x \in Idx}
        \cup {DiagonalCells, AntiDiagonalCells}
Squares == {SquareCells(i, k) : i \in 0 .. (SIZE - 2), k \in 0 .. (SIZE - 2)}

\* The field whose cells in s hold a[pos] and whose other cells are empty
FieldWith(s, a) ==
    [y \in Idx |-> [x \in Idx |-> IF <<x, y>> \in s THEN a[<<x, y>>] ELSE None]]

Occupied(f) == {pos \in Pos : ~is_none(f[pos[2]][pos[1]])}

\* The call o(a) has returned v
Call(o, a, v) == ret' = v /\ op' = o /\ args' = a

\* The last call was o(a) and returned v
Called(o, a, v) == op = o /\ args = a /\ ret = v

(***************************************************************************)
(* The field as a state machine: a caller owning one Field calls put,      *)
(* check_field_for_win and empty_spaces and writes square_mode.            *)
(***************************************************************************)
Put(pos, p) ==
    /\ Call("put", <<>>, put_result(field, pos, p))
    /\ field' = put_field(field, pos, p)
    /\ successes' =
           IF put_result(field, pos, p) = "Ok" THEN successes + 1 ELSE successes
    /\ UNCHANGED <<square_mode, piece>>

\* put while fewer than n puts have succeeded; a put to an occupied cell always
PutWithin(n, pos, p) ==
    /\ is_none(field[pos[2]][pos[1]]) => successes < n
    /\ Put(pos, p)

SetSquareMode(b) ==
    /\ square_mode' = b
    /\ Call("square_mode", <<b>>, "unit")
    /\ UNCHANGED <<field, piece, successes>>

CheckFieldForWin ==
    /\ Call("check_field_for_win", <<>>, check_field_for_win(field, square_mode))
    /\ UNCHANGED <<field, square_mode, piece, successes>>

EmptySpaces ==
    /\ Call("empty_spaces", <<>>, empty_spaces(field))
    /\ UNCHANGED <<field, square_mode, piece, successes>>

\* A game from Field::new()
Init ==
    /\ field = EmptyField
    /\ square_mode = FALSE
    /\ piece = new
    /\ Called("new", <<>>, "unit")
    /\ successes = 0

Next ==
    \/ \E pos \in Pos, p \in Pieces : PutWithin(MaxPieces, pos, p)
    \/ \E b \in BOOLEAN : SetSquareMode(b)
    \/ CheckFieldForWin
    \/ EmptySpaces

Spec == Init /\ [][Next]_vars

\* check_field_for_win on a field that puts have filled along one line or
\* one 2x2 square, each of its four cells empty or holding a piece
WinInit ==
    /\ \E s \in StraightLines \cup Squares :
           \E a \in [s -> {None} \cup {Some(p) : p \in LinePieces}] :
               field = FieldWith(s, a)
    /\ square_mode = FALSE
    /\ piece = new
    /\ IF field = EmptyField THEN Called("new", <<>>, "unit")
       ELSE Called("put", <<>>, "Ok")
    /\ successes = Cardinality(Occupied(field))

WinNext ==
    \/ \E b \in BOOLEAN : SetSquareMode(b)
    \/ CheckFieldForWin

WinSpec == WinInit /\ [][WinNext]_vars

\* A game played on from a field that four puts have filled along one line
\* or one 2x2 square
PlayInit ==
    /\ \E s \in StraightLines \cup Squares :
           \E a \in [s -> {Some(p) : p \in Pieces}] :
               field = FieldWith(s, a)
    /\ square_mode \in BOOLEAN
    /\ piece = new
    /\ Called("put", <<>>, "Ok")
    /\ successes = Cardinality(Occupied(field))

PlayNext ==
    \/ \E pos \in Pos, p \in Pieces : PutWithin(MaxPlayPieces, pos, p)
    \/ \E b \in BOOLEAN : SetSquareMode(b)
    \/ CheckFieldForWin

PlaySpec == PlayInit /\ [][PlayNext]_vars

(***************************************************************************)
(* The piece as a state machine: a caller owning one Piece builds it and   *)
(* calls set and get.                                                      *)
(***************************************************************************)
New ==
    /\ piece' = new
    /\ Call("new", <<>>, "unit")
    /\ UNCHANGED <<field, square_mode, successes>>

NewWithProps(props) ==
    /\ Shr(props, 4) = 0
    /\ piece' = new_with_props(props)
    /\ Call("new_with_props", <<props>>, "unit")
    /\ UNCHANGED <<field, square_mode, successes>>

Set(prop, val) ==
    /\ piece' = set(piece, prop, val)
    /\ Call("set", <<prop, val>>, "unit")
    /\ UNCHANGED <<field, square_mode, successes>>

Get(prop) ==
    /\ Call("get", <<prop>>, get(piece, prop))
    /\ UNCHANGED <<field, square_mode, piece, successes>>

PieceNext ==
    \/ New
    \/ \E props \in Props : NewWithProps(props)
    \/ \E prop \in Property, val \in BOOLEAN : Set(prop, val)
    \/ \E prop \in Property : Get(prop)

PieceSpec == Init /\ [][PieceNext]_vars

(***************************************************************************)
(* Properties.                                                             *)
(***************************************************************************)
Cell(f, pos) == f[pos[2]][pos[1]]
PieceAt(f, pos) == Cell(f, pos)[1]

\* Every cell of s holds a piece
FullLine(f, s) == \A pos \in s : ~is_none(Cell(f, pos))

\* The pieces on s have the same value, as get reads it, for some property
Agree(f, s) ==
    \E prop \in Property : \E v \in BOOLEAN :
        \A pos \in s : get(PieceAt(f, pos), prop) = v

\* The lines that count: the squares only in square mode
ApplicableLines(sq) == StraightLines \cup (IF sq THEN Squares ELSE {})

Returned(o) == op = o

\* C1: whenever a row, a column or a diagonal is fully occupied by four pieces
\* that agree on the value of some property, check_field_for_win returns true.
C1_AgreeingLineWins ==
    (/\ Returned("check_field_for_win")
     /\ \E s \in StraightLines : FullLine(field, s) /\ Agree(field, s))
        => ret = TRUE

\* C2: check_field_for_win returns false whenever no applicable line (rows,
\* columns, diagonals, and the 2x2 squares only in square mode) is both fully
\* occupied and unanimous on the value of some property.
C2_NoLineNoWin ==
    (/\ Returned("check_field_for_win")
     /\ ~\E s \in ApplicableLines(square_mode) :
            FullLine(field, s) /\ Agree(field, s))
        => ret = FALSE

\* A full line of Tall|Light, 0 and Round|Full pieces, unanimous on nothing,
\* for which false was returned
C2_Witness ==
    /\ Returned("check_field_for_win")
    /\ ret = FALSE
    /\ \E s \in StraightLines :
           /\ FullLine(field, s)
           /\ {PieceAt(field, pos) : pos \in s} =
                  {TEST_LIGHT_TALL, TEST_DARK_SHORT, TEST_SHORT_FULL_DARK_CIRCLE}
           /\ ~Agree(field, s)

\* C3: on a field whose only occupied cells are those of one 2x2 square,
\* holding four pieces that share a property value, check_field_for_win
\* returns false with square_mode off and true with square_mode on; with only
\* three of the four cells filled it returns false in both modes.
C3_SquareWinsInSquareMode ==
    \A s \in Squares :
        (Returned("check_field_for_win") /\ Occupied(field) \subseteq s) =>
            /\ (Occupied(field) = s /\ Agree(field, s)) => ret = square_mode
            /\ Cardinality(Occupied(field)) = 3 => ret = FALSE

\* The field of scenario B: column x holds Tall|Light pieces but for its third
\* cell, which holds the piece built from 0
ScenarioB(x) ==
    FieldWith(ColumnCells(x),
              [pos \in ColumnCells(x) |->
                   IF pos[2] = 2 THEN Some(TEST_DARK_SHORT)
                   ELSE Some(TEST_LIGHT_TALL)])

C4_PutContract ==
    /\ [](\A pos \in Pos, p \in Pieces :
             LET occupied == ~is_none(Cell(field, pos))
                 result == put_result(field, pos, p)
                 after == put_field(field, pos, p)
             IN  /\ (result = "Err") <=> occupied
                 /\ occupied => after = field
                 /\ ~occupied =>
                        /\ result = "Ok"
                        /\ Cell(after, pos) = Some(p))
    /\ [][op' = "put" =>
              /\ square_mode' = square_mode
              /\ ret' = "Err" => field' = field
              /\ ret' = "Ok" =>
                     \E pos \in Pos :
                         /\ is_none(Cell(field, pos))
                         /\ ~is_none(Cell(field', pos))
                         /\ field' = put_field(field, pos, PieceAt(field', pos))]_vars

\* A put to an occupied cell has returned the error
C4_Witness ==
    /\ Returned("put")
    /\ ret = "Err"
    /\ Occupied(field) # {}

\* C7: empty_spaces returns exactly the empty cells, each once, 16 less the
\* number of successful puts of them, those a put would succeed on, in scan
\* order: x ascending, then y ascending.
C7_EmptySpaces ==
    Returned("empty_spaces") =>
        LET s == ret
        IN  /\ \A pos \in Pos :
                   (\E i \in 1 .. Len(s) : s[i] = pos) <=> is_none(Cell(field, pos))
            /\ \A i, j \in 1 .. Len(s) : i # j => s[i] # s[j]
            /\ Len(s) = SIZE * SIZE - successes
            /\ \A pos \in Pos, p \in Pieces :
                   (\E i \in 1 .. Len(s) : s[i] = pos)
                       <=> put_result(field, pos, p) = "Ok"
            /\ \A i, j \in 1 .. Len(s) :
                   i < j => \/ s[i][1] < s[j][1]
                            \/ s[i][1] = s[j][1] /\ s[i][2] < s[j][2]

\* empty_spaces has returned 13 positions after three successful puts
C7_Witness ==
    /\ Returned("empty_spaces")
    /\ successes = 3
    /\ Len(ret) = SIZE * SIZE - 3

\* C9: an occupied cell holds the same piece in every later state; a step
\* changes at most one cell, and only a successful put changes any.
C9_CellsKept ==
    [][/\ \A pos \in Pos :
              ~is_none(Cell(field, pos)) => Cell(field', pos) = Cell(field, pos)
       /\ Cardinality({pos \in Pos : Cell(field', pos) # Cell(field, pos)}) <= 1
       /\ field' # field => op' = "put" /\ ret' = "Ok"]_vars

\* Every piece successfully put is on the field after a mode change and a
\* failed put
C9_Witness ==
    /\ successes = 3
    /\ Cardinality(Occupied(field)) = 3
    /\ square_mode
    /\ Returned("put")
    /\ ret = "Err"

\* C10: a won field stays won under put; only a step that switches
\* square_mode from on to off takes a win away.
C10_WinKept ==
    [][(/\ <<field, square_mode>>' # <<field, square_mode>>
        /\ check_field_for_win(field, square_mode)
        /\ ~check_field_for_win(field', square_mode'))
           => /\ square_mode /\ ~square_mode'
              /\ op' = "square_mode"]_vars

\* true was returned after a fifth piece was put beside a full line
C10_Witness ==
    /\ Returned("check_field_for_win")
    /\ ret = TRUE
    /\ successes = 5

\* C5: for each property exactly one of the piece's two bits, the is-true bit
\* and the is-false bit four places above it, is on.
C5_ComplementEncoding ==
    \A prop \in Property :
        (BitAnd(piece, prop) # 0) # (BitAnd(piece, Shl(prop, 4)) # 0)

\* C6: after set(p, v), get(p) returns v and get(q) returns what it returned
\* before for each other property q.
C6_SetFrame ==
    [][op' = "set" =>
           /\ get(piece', args'[1]) = args'[2]
           /\ \A q \in Property \ {args'[1]} :
                  get(piece', q) = get(piece, q)]_vars

\* set(Tall, false) has left a Round and Light piece not Tall
C6_Witness ==
    /\ Returned("set")
    /\ args = <<Tall, FALSE>>
    /\ ~get(piece, Tall)
    /\ get(piece, Round)
    /\ get(piece, Light)
    /\ BitAnd(piece, Shl(Tall, 4)) # 0

====
